---- MODULE Spec2Model ----
(***************************************************************************)
(* A model of padic_digitwise_op.py: conversion between rationals and      *)
(* eventually periodic p-adic digit expansions, simplification of          *)
(* expansions, and the digit-wise combination of two expansions.           *)
(*                                                                         *)
(* A rational is the record [n, d].  A p-adic expansion is the record      *)
(* [seq, rpt, shr] (digits, repeat index, right shift).  A Python          *)
(* exception is the record [error |-> name].  Python lists are 0-based,    *)
(* TLA+ sequences 1-based: Python seq[k] is seq[k + 1] here.               *)
(***************************************************************************)
EXTENDS Integers, Sequences, FiniteSets, TLC

\* ------------------------------------------------------------------------
\* Bounds of the model
\* ------------------------------------------------------------------------
\* largest base tried; the bases are the primes up to it
MaxPrime == 5
\* command-line arguments: numerators in -MaxArgNum..MaxArgNum,
\* denominators in -MaxArgDen..MaxArgDen
MaxArgNum == 2
MaxArgDen == 6
\* rationals handed to padic_from_rational alone
MaxNum == 12
MaxDen == 12
\* expansions handed to simplify_padic, rational_from_padic and
\* padic_digitwise_op alone: at most MaxLen digits, shifts up to MaxShr
MaxLen == 3
MaxShr == 3
\* non-negative integers whose 2-adic expansions are combined
MaxInt == 5
\* default base of the command line and of every p= parameter
DefaultPrime == 2

\* ------------------------------------------------------------------------
\* Python primitives
\* ------------------------------------------------------------------------
Abs(x) == IF x < 0 THEN -x ELSE x

Min(x, y) == IF x < y THEN x ELSE y

Max(x, y) == IF x < y THEN y ELSE x

RECURSIVE Pow(_, _)
Pow(b, e) == IF e = 0 THEN 1 ELSE b * Pow(b, e - 1)

RECURSIVE GcdNat(_, _)
GcdNat(x, y) == IF y = 0 THEN x ELSE GcdNat(y, x % y)

\* math.gcd: the non-negative greatest common divisor, gcd(0, 0) = 0
Gcd(x, y) == GcdNat(Abs(x), Abs(y))

Raise(name) == [error |-> name]

IsError(v) == "error" \in DOMAIN v

\* seq[k] of a Python list: a negative index counts from the end
InRange(s, k) == -Len(s) <= k /\ k < Len(s)

PyGet(s, k) == IF k >= 0 THEN s[k + 1] ELSE s[Len(s) + k + 1]

\* seq[:k] of a Python list
SliceTo(s, k) ==
    LET e == IF k >= 0 THEN Min(k, Len(s)) ELSE Max(Len(s) + k, 0)
    IN  SubSeq(s, 1, e)

\* seq[k:] of a Python list, k >= 0
SliceFrom(s, k) == SubSeq(s, Min(k, Len(s)) + 1, Len(s))

\* the primality precondition on the base (main asserts is_probably_prime)
IsPrime(q) == q > 1 /\ \A r \in 2..(q - 1) : q % r # 0

Primes == {q \in 2..MaxPrime : IsPrime(q)}

\* ------------------------------------------------------------------------
\* simplify_rational
\* ------------------------------------------------------------------------
\* simplify_rational without the sign change of lines 128-129
simplify_rational_KeepSign(r) ==
    LET g == Gcd(r.n, r.d)
    IN  IF g = 0 THEN Raise("ZeroDivisionError")
        ELSE [n |-> r.n \div g, d |-> r.d \div g]

simplify_rational(r) ==
    LET n1 == IF r.d < 0 THEN -r.n ELSE r.n
        d1 == IF r.d < 0 THEN -r.d ELSE r.d
        g  == Gcd(n1, d1)
    IN  IF g = 0 THEN Raise("ZeroDivisionError")
        ELSE [n |-> n1 \div g, d |-> d1 \div g]

\* ------------------------------------------------------------------------
\* rational_from_padic
\* ------------------------------------------------------------------------
\* the two accumulation loops: sum of seq[i] * k for i in range(lo, hi),
\* k starting at k0 and multiplied by q each round
RECURSIVE Accumulate(_, _, _, _, _, _)
Accumulate(s, i, hi, acc, k, q) ==
    IF i >= hi THEN [acc |-> acc, k |-> k]
    ELSE IF ~InRange(s, i) THEN Raise("IndexError")
    ELSE Accumulate(s, i + 1, hi, acc + PyGet(s, i) * k, k * q, q)

\* rational_from_padic with d = p^t in place of p^t - 1 at line 122
rational_from_padic_NoMinusOne(x, q) ==
    LET A == Accumulate(x.seq, 0, x.rpt, 0, 1, q)
    IN  IF IsError(A) THEN A
        ELSE LET C == Accumulate(x.seq, x.rpt, Len(x.seq), 0, A.k, q)
             IN  IF IsError(C) THEN C
                 ELSE LET dd == Pow(q, Len(x.seq) - x.rpt)
                      IN  [n |-> A.acc * dd - C.acc, d |-> dd * Pow(q, x.shr)]

rational_from_padic(x, q) ==
    LET A == Accumulate(x.seq, 0, x.rpt, 0, 1, q)
    IN  IF IsError(A) THEN A
        ELSE LET C == Accumulate(x.seq, x.rpt, Len(x.seq), 0, A.k, q)
             IN  IF IsError(C) THEN C
                 ELSE LET dd == Pow(q, Len(x.seq) - x.rpt) - 1
                      IN  [n |-> A.acc * dd - C.acc, d |-> dd * Pow(q, x.shr)]

\* ------------------------------------------------------------------------
\* simplify_padic
\* ------------------------------------------------------------------------
\* t: index of the first nonzero digit among seq[:shr], else min(len, shr)
TrailingZeroes(s, sh) ==
    LET pre == SliceTo(s, sh)
        nz  == {i \in 0..(Len(pre) - 1) : pre[i + 1] # 0}
    IN  IF nz = {} THEN Min(Len(s), sh)
        ELSE CHOOSE i \in nz : \A j \in nz : i <= j

\* while rpt > 0 and seq[rpt - 1] == seq[-1]: rpt -= 1; seq.pop()
RECURSIVE MergeTail(_, _)
MergeTail(s, r) ==
    IF r <= 0 THEN [seq |-> s, rpt |-> r]
    ELSE IF ~InRange(s, r - 1) \/ ~InRange(s, -1) THEN Raise("IndexError")
    ELSE IF PyGet(s, r - 1) = PyGet(s, -1)
         THEN MergeTail(SubSeq(s, 1, Len(s) - 1), r - 1)
         ELSE [seq |-> s, rpt |-> r]

\* all(seq[j] == seq[j - i] for j in range(j, len(seq))): "T", "F", or "E"
\* when an index is out of range before a mismatch is met
RECURSIVE AllMatch(_, _, _)
AllMatch(s, i, j) ==
    IF j >= Len(s) THEN "T"
    ELSE IF ~InRange(s, j) \/ ~InRange(s, j - i) THEN "E"
    ELSE IF PyGet(s, j) # PyGet(s, j - i) THEN "F"
    ELSE AllMatch(s, i, j + 1)

\* for i in range(i, (len(seq) - rpt) // 2 + 1): first divisor i of the
\* period with which the repeated part is periodic truncates seq
RECURSIVE MinimizePeriod(_, _, _, _)
MinimizePeriod(s, r, i, last) ==
    IF i > last THEN [seq |-> s]
    ELSE IF (Len(s) - r) % i = 0
         THEN LET m == AllMatch(s, i, r + i)
              IN  IF m = "E" THEN Raise("IndexError")
                  ELSE IF m = "T" THEN [seq |-> SliceTo(s, r + i)]
                  ELSE MinimizePeriod(s, r, i + 1, last)
         ELSE MinimizePeriod(s, r, i + 1, last)

simplify_padic(x) ==
    LET t == TrailingZeroes(x.seq, x.shr)
    IN  IF t = Len(x.seq) THEN [seq |-> <<0>>, rpt |-> 0, shr |-> 0]
        ELSE LET M == MergeTail(SliceFrom(x.seq, t), x.rpt - t)
             IN  IF IsError(M) THEN M
                 ELSE LET S == MinimizePeriod(M.seq, M.rpt, 1,
                                              ((Len(M.seq) - M.rpt) \div 2))
                      IN  IF IsError(S) THEN S
                          ELSE [seq |-> S.seq, rpt |-> M.rpt, shr |-> x.shr - t]

\* ------------------------------------------------------------------------
\* padic_from_rational: the locals n, d, di, seq, seen, shr as one record
\* ------------------------------------------------------------------------
\* the locals on entry (di is not yet bound; 0 stands for that)
PfrStart(r) ==
    [n |-> r.n, d |-> r.d, di |-> 0, seq |-> <<>>, seen |-> <<>>, shr |-> 0]

\* the stripping round without the shift count of line 78
PfrStrip_NoShift(st, q) ==
    IF st.n % q = 0
    THEN [st EXCEPT !.d = st.d \div q, !.n = st.n \div q]
    ELSE [st EXCEPT !.d = st.d \div q]

\* one round of "while d % p == 0"
PfrStrip(st, q) ==
    IF st.n % q = 0
    THEN [st EXCEPT !.d = st.d \div q, !.n = st.n \div q]
    ELSE [st EXCEPT !.d = st.d \div q, !.shr = st.shr + 1]

\* d mod p in place of its inverse at line 79
ModInverse_Residue(dd, q) == dd % q

\* pow(d, -1, p): the inverse of d modulo the prime p, in [0, p)
ModInverse(dd, q) == CHOOSE x \in 0..(q - 1) : (dd * x) % q = 1

PfrInverse(st, q) == [st EXCEPT !.di = ModInverse(st.d, q)]

\* the round with seen[n] = len(seq) stored after seq.append(i)
PfrStep_SeenAfterAppend(st, q) ==
    LET i == (st.n * st.di) % q
    IN  [st EXCEPT !.seen = (st.n :> (Len(st.seq) + 1)) @@ st.seen,
                   !.seq  = Append(st.seq, i),
                   !.n    = (st.n - st.d * i) \div q]

\* one round of "while n not in seen"
PfrStep(st, q) ==
    LET i == (st.n * st.di) % q
    IN  [st EXCEPT !.seen = (st.n :> Len(st.seq)) @@ st.seen,
                   !.seq  = Append(st.seq, i),
                   !.n    = (st.n - st.d * i) \div q]

\* return seq, seen[n], shr
PfrResult(st) == [seq |-> st.seq, rpt |-> st.seen[st.n], shr |-> st.shr]

RECURSIVE PfrStripAll(_, _)
PfrStripAll(st, q) ==
    IF st.d % q = 0 THEN PfrStripAll(PfrStrip(st, q), q) ELSE st

RECURSIVE PfrLoop(_, _)
PfrLoop(st, q) ==
    IF st.n \in DOMAIN st.seen THEN PfrResult(st) ELSE PfrLoop(PfrStep(st, q), q)

\* the whole function, for a rational with d > 0
padic_from_rational(r, q) ==
    PfrLoop(PfrInverse(PfrStripAll(PfrStart(r), q), q), q)

\* ------------------------------------------------------------------------
\* padic_digitwise_op: the locals idx_a, idx_b, seq, seen as one record
\* ------------------------------------------------------------------------
\* the digit operations handed to the combinator
OpNames == {"sum", "nor"}

\* sum_op(p), and a second operation that maps (0, 0) to a nonzero digit
ApplyOp(o, q, a, b) ==
    IF o = "sum" THEN (a + b) % q
    ELSE IF a = 0 /\ b = 0 THEN 1 ELSE 0

\* each operand padded by the other's whole shift, not by the difference
DwStart_PadBoth(A, B) ==
    [idx_a |-> -B.shr, idx_b |-> -A.shr, seq |-> <<>>, seen |-> <<>>]

DwStart(A, B) ==
    [idx_a |-> Min(0, A.shr - B.shr), idx_b |-> Min(0, B.shr - A.shr),
     seq |-> <<>>, seen |-> <<>>]

\* the round with both indices wrapping to 0, not to the repeat index
DwStep_WrapToZero(o, q, A, B, st) ==
    LET dig_a == IF st.idx_a >= 0 THEN A.seq[st.idx_a + 1] ELSE 0
        dig_b == IF st.idx_b >= 0 THEN B.seq[st.idx_b + 1] ELSE 0
        ia    == st.idx_a + 1
        ib    == st.idx_b + 1
    IN  [seen  |-> (<<st.idx_a, st.idx_b>> :> Len(st.seq)) @@ st.seen,
         seq   |-> Append(st.seq, ApplyOp(o, q, dig_a, dig_b)),
         idx_a |-> IF ia = Len(A.seq) THEN 0 ELSE ia,
         idx_b |-> IF ib = Len(B.seq) THEN 0 ELSE ib]

\* one round of "while (idx_a, idx_b) not in seen"
DwStep(o, q, A, B, st) ==
    LET dig_a == IF st.idx_a >= 0 THEN A.seq[st.idx_a + 1] ELSE 0
        dig_b == IF st.idx_b >= 0 THEN B.seq[st.idx_b + 1] ELSE 0
        ia    == st.idx_a + 1
        ib    == st.idx_b + 1
    IN  [seen  |-> (<<st.idx_a, st.idx_b>> :> Len(st.seq)) @@ st.seen,
         seq   |-> Append(st.seq, ApplyOp(o, q, dig_a, dig_b)),
         idx_a |-> IF ia = Len(A.seq) THEN A.rpt ELSE ia,
         idx_b |-> IF ib = Len(B.seq) THEN B.rpt ELSE ib]

\* return seq, seen[idx_a, idx_b], max(shr_a, shr_b)
DwResult(A, B, st) ==
    [seq |-> st.seq, rpt |-> st.seen[<<st.idx_a, st.idx_b>>],
     shr |-> Max(A.shr, B.shr)]

RECURSIVE DwLoop(_, _, _, _, _)
DwLoop(o, q, A, B, st) ==
    IF <<st.idx_a, st.idx_b>> \in DOMAIN st.seen THEN DwResult(A, B, st)
    ELSE DwLoop(o, q, A, B, DwStep(o, q, A, B, st))

padic_digitwise_op(o, q, A, B) == DwLoop(o, q, A, B, DwStart(A, B))

\* ------------------------------------------------------------------------
\* The values the operations are run on
\* ------------------------------------------------------------------------
\* the value of a variable not yet assigned
None == [none |-> TRUE]

\* a well-formed expansion in base q: digits in [0, q), 0 <= rpt < len(seq),
\* shr >= 0
WellFormed(x, q) ==
    /\ DOMAIN x = {"seq", "rpt", "shr"}
    /\ Len(x.seq) >= 1
    /\ \A i \in 1..Len(x.seq) : x.seq[i] \in 0..(q - 1)
    /\ x.rpt \in 0..(Len(x.seq) - 1)
    /\ x.shr >= 0

\* all expansions of lengths lo..MaxLen whose repeat index is at most
\* len(seq) - short, with shifts up to MaxShr
ExpansionsFrom(q, lo, short) ==
    UNION {{[seq |-> s, rpt |-> r, shr |-> h] :
                s \in [1..L -> 0..(q - 1)], r \in 0..(L - short),
                h \in 0..MaxShr} : L \in lo..MaxLen}

Expansions(q) == ExpansionsFrom(q, 1, 1)

\* the expansions of the data model, repeat index len(seq) included
LooseExpansions(q) == ExpansionsFrom(q, 0, 0)

\* the converter's expansions of the integers 0..MaxInt in the default base
IntegerExpansion ==
    [a \in 0..MaxInt |-> padic_from_rational([n |-> a, d |-> 1], DefaultPrime)]

IntegerExpansions == {IntegerExpansion[a] : a \in 0..MaxInt}

Operands == Expansions(DefaultPrime) \cup IntegerExpansions

\* the digit of an expansion at stored position k of its unrolling;
\* positions before the first stored digit hold 0
DigitAt(x, k) ==
    IF k < 0 THEN 0
    ELSE IF k < Len(x.seq) THEN x.seq[k + 1]
    ELSE x.seq[x.rpt + ((k - x.rpt) % (Len(x.seq) - x.rpt)) + 1]

Period(x) == Len(x.seq) - x.rpt

\* simplify_rational(rational_from_padic(x, q)), as main line 241 composes
Value(x, q) ==
    LET r == rational_from_padic(x, q)
    IN  IF IsError(r) THEN r ELSE simplify_rational(r)

\* ------------------------------------------------------------------------
\* State
\* ------------------------------------------------------------------------
VARIABLES
    pc,       \* position in the program
    p,        \* the base
    op,       \* the digit operation handed to padic_digitwise_op
    argv,     \* the four integer command-line arguments
    rat_a,    \* main's rat_a; the argument of padic_from_rational
    rat_b,    \* main's rat_b
    pfr,      \* the locals of a running padic_from_rational
    padic_a,  \* main's padic_a; first operand of padic_digitwise_op
    padic_b,  \* main's padic_b; second operand
    dw,       \* the locals of a running padic_digitwise_op
    padic,    \* the expansion handed to simplify_padic
    simp,     \* what simplify_padic returned (main's padic_dws)
    resimp,   \* what simplify_padic returned for simp
    rat_raw,  \* what rational_from_padic returned
    rat_dws   \* main's rat_dws

vars == <<pc, p, op, argv, rat_a, rat_b, pfr, padic_a, padic_b, dw, padic,
          simp, resimp, rat_raw, rat_dws>>

\* ------------------------------------------------------------------------
\* main, lines 231-239: normalise, assert, convert, combine
\* ------------------------------------------------------------------------
Main231 ==
    /\ pc = "main_231"
    /\ rat_a' = simplify_rational([n |-> argv.na, d |-> argv.da])
    /\ pc' = IF IsError(rat_a') THEN "raised" ELSE "main_232"
    /\ UNCHANGED <<p, op, argv, rat_b, pfr, padic_a, padic_b, dw, padic,
                   simp, resimp, rat_raw, rat_dws>>

Main232 ==
    /\ pc = "main_232"
    /\ rat_b' = simplify_rational([n |-> argv.nb, d |-> argv.db])
    /\ pc' = IF IsError(rat_b') THEN "raised" ELSE "main_235"
    /\ UNCHANGED <<p, op, argv, rat_a, pfr, padic_a, padic_b, dw, padic,
                   simp, resimp, rat_raw, rat_dws>>

\* assert rat_a[1] > 0, "denomA must be positive"
Main235 ==
    /\ pc = "main_235"
    /\ pc' = IF rat_a.d > 0 THEN "main_236" ELSE "assert_failed"
    /\ UNCHANGED <<p, op, argv, rat_a, rat_b, pfr, padic_a, padic_b, dw,
                   padic, simp, resimp, rat_raw, rat_dws>>

\* assert rat_b[1] > 0, "denomB must be positive"
Main236 ==
    /\ pc = "main_236"
    /\ pc' = IF rat_b.d > 0 THEN "main_237" ELSE "assert_failed"
    /\ UNCHANGED <<p, op, argv, rat_a, rat_b, pfr, padic_a, padic_b, dw,
                   padic, simp, resimp, rat_raw, rat_dws>>

Main237 ==
    /\ pc = "main_237"
    /\ padic_a' = padic_from_rational(rat_a, p)
    /\ pc' = "main_238"
    /\ UNCHANGED <<p, op, argv, rat_a, rat_b, pfr, padic_b, dw, padic,
                   simp, resimp, rat_raw, rat_dws>>

Main238 ==
    /\ pc = "main_238"
    /\ padic_b' = padic_from_rational(rat_b, p)
    /\ pc' = "main_239"
    /\ UNCHANGED <<p, op, argv, rat_a, rat_b, pfr, padic_a, dw, padic,
                   simp, resimp, rat_raw, rat_dws>>

Main239 ==
    /\ pc = "main_239"
    /\ padic' = padic_digitwise_op(op, p, padic_a, padic_b)
    /\ pc' = "simplify"
    /\ UNCHANGED <<p, op, argv, rat_a, rat_b, pfr, padic_a, padic_b, dw,
                   simp, resimp, rat_raw, rat_dws>>

\* ------------------------------------------------------------------------
\* main, lines 240-241: simplify, convert back, reduce
\* ------------------------------------------------------------------------
\* padic_dws = simplify_padic(padic_dws)
Simplify ==
    /\ pc = "simplify"
    /\ simp' = simplify_padic(padic)
    /\ pc' = IF IsError(simp') THEN "raised" ELSE "to_rational"
    /\ UNCHANGED <<p, op, argv, rat_a, rat_b, pfr, padic_a, padic_b, dw,
                   padic, resimp, rat_raw, rat_dws>>

\* simplify_padic applied to its own result
Resimplify ==
    /\ pc = "to_rational"
    /\ resimp = None
    /\ resimp' = simplify_padic(simp)
    /\ UNCHANGED <<pc, p, op, argv, rat_a, rat_b, pfr, padic_a, padic_b, dw,
                   padic, simp, rat_raw, rat_dws>>

\* rational_from_padic(padic_dws, p)
FromPadic ==
    /\ pc = "to_rational"
    /\ rat_raw' = rational_from_padic(simp, p)
    /\ pc' = IF IsError(rat_raw') THEN "raised" ELSE "reduce"
    /\ UNCHANGED <<p, op, argv, rat_a, rat_b, pfr, padic_a, padic_b, dw,
                   padic, simp, resimp, rat_dws>>

\* rat_dws = simplify_rational(...)
Reduce ==
    /\ pc = "reduce"
    /\ rat_dws' = simplify_rational(rat_raw)
    /\ pc' = IF IsError(rat_dws') THEN "raised" ELSE "done"
    /\ UNCHANGED <<p, op, argv, rat_a, rat_b, pfr, padic_a, padic_b, dw,
                   padic, simp, resimp, rat_raw>>

\* ------------------------------------------------------------------------
\* padic_from_rational, statement by statement
\* ------------------------------------------------------------------------
\* while d % p == 0: one round
PfrStripStep ==
    /\ pc = "pfr_strip"
    /\ pfr.d % p = 0
    /\ pfr' = PfrStrip(pfr, p)
    /\ UNCHANGED <<pc, p, op, argv, rat_a, rat_b, padic_a, padic_b, dw,
                   padic, simp, resimp, rat_raw, rat_dws>>

\* di = pow(d, -1, p)
PfrInvert ==
    /\ pc = "pfr_strip"
    /\ pfr.d % p # 0
    /\ pfr' = PfrInverse(pfr, p)
    /\ pc' = "pfr_loop"
    /\ UNCHANGED <<p, op, argv, rat_a, rat_b, padic_a, padic_b, dw, padic,
                   simp, resimp, rat_raw, rat_dws>>

\* while n not in seen: one round
PfrLoopStep ==
    /\ pc = "pfr_loop"
    /\ pfr.n \notin DOMAIN pfr.seen
    /\ pfr' = PfrStep(pfr, p)
    /\ UNCHANGED <<pc, p, op, argv, rat_a, rat_b, padic_a, padic_b, dw,
                   padic, simp, resimp, rat_raw, rat_dws>>

\* return seq, seen[n], shr
PfrReturn ==
    /\ pc = "pfr_loop"
    /\ pfr.n \in DOMAIN pfr.seen
    /\ padic' = PfrResult(pfr)
    /\ pc' = "simplify"
    /\ UNCHANGED <<p, op, argv, rat_a, rat_b, pfr, padic_a, padic_b, dw,
                   simp, resimp, rat_raw, rat_dws>>

\* ------------------------------------------------------------------------
\* padic_digitwise_op, statement by statement
\* ------------------------------------------------------------------------
\* while (idx_a, idx_b) not in seen: one round
DwLoopStep ==
    /\ pc = "dw_loop"
    /\ <<dw.idx_a, dw.idx_b>> \notin DOMAIN dw.seen
    /\ dw' = DwStep(op, p, padic_a, padic_b, dw)
    /\ UNCHANGED <<pc, p, op, argv, rat_a, rat_b, pfr, padic_a, padic_b,
                   padic, simp, resimp, rat_raw, rat_dws>>

\* return seq, seen[idx_a, idx_b], max(shr_a, shr_b)
DwReturn ==
    /\ pc = "dw_loop"
    /\ <<dw.idx_a, dw.idx_b>> \in DOMAIN dw.seen
    /\ padic' = DwResult(padic_a, padic_b, dw)
    /\ pc' = "simplify"
    /\ UNCHANGED <<p, op, argv, rat_a, rat_b, pfr, padic_a, padic_b, dw,
                   simp, resimp, rat_raw, rat_dws>>

\* ------------------------------------------------------------------------
\* Specifications
\* ------------------------------------------------------------------------
\* the program run from the command line with a prime base
Init ==
    /\ pc = "main_231"
    /\ p \in Primes
    /\ op = "sum"
    /\ argv \in [na : -MaxArgNum..MaxArgNum, da : -MaxArgDen..MaxArgDen,
                 nb : -MaxArgNum..MaxArgNum, db : -MaxArgDen..MaxArgDen]
    /\ rat_a = None /\ rat_b = None /\ pfr = None
    /\ padic_a = None /\ padic_b = None /\ dw = None
    /\ padic = None /\ simp = None /\ resimp = None
    /\ rat_raw = None /\ rat_dws = None

Next ==
    \/ Main231 \/ Main232 \/ Main235 \/ Main236
    \/ Main237 \/ Main238 \/ Main239
    \/ Simplify \/ FromPadic \/ Reduce

Spec == Init /\ [][Next]_vars

\* padic_from_rational called on a rational with d > 0, its result
\* simplified and converted back
InitConv ==
    /\ pc = "pfr_strip"
    /\ p \in Primes
    /\ op = "sum"
    /\ argv = None
    /\ rat_a \in [n : -MaxNum..MaxNum, d : 1..MaxDen]
    /\ pfr = PfrStart(rat_a)
    /\ rat_b = None
    /\ padic_a = None /\ padic_b = None /\ dw = None
    /\ padic = None /\ simp = None /\ resimp = None
    /\ rat_raw = None /\ rat_dws = None

NextConv ==
    \/ PfrStripStep \/ PfrInvert \/ PfrLoopStep \/ PfrReturn
    \/ Simplify \/ FromPadic \/ Reduce

SpecConv == InitConv /\ [][NextConv]_vars

\* the same, the sequential program always taking its next step
SpecConvFair == SpecConv /\ WF_vars(NextConv)

\* simplify_padic called on a well-formed expansion, then on its own result
InitSimp ==
    /\ pc = "simplify"
    /\ p \in Primes
    /\ op = "sum"
    /\ argv = None
    /\ padic \in Expansions(p)
    /\ rat_a = None /\ rat_b = None /\ pfr = None
    /\ padic_a = None /\ padic_b = None /\ dw = None
    /\ simp = None /\ resimp = None
    /\ rat_raw = None /\ rat_dws = None

NextSimp == Simplify \/ Resimplify \/ FromPadic \/ Reduce

SpecSimp == InitSimp /\ [][NextSimp]_vars

\* rational_from_padic called on an expansion of the data model, its result
\* reduced
InitRat ==
    /\ pc = "to_rational"
    /\ p \in Primes
    /\ op = "sum"
    /\ argv = None
    /\ simp \in LooseExpansions(p)
    /\ rat_a = None /\ rat_b = None /\ pfr = None
    /\ padic_a = None /\ padic_b = None /\ dw = None
    /\ padic = None /\ resimp = None
    /\ rat_raw = None /\ rat_dws = None

NextRat == FromPadic \/ Reduce

SpecRat == InitRat /\ [][NextRat]_vars

\* padic_digitwise_op called on two well-formed expansions in the default
\* base, its result simplified and converted back
InitComb ==
    /\ pc = "dw_loop"
    /\ p = DefaultPrime
    /\ op \in OpNames
    /\ argv = None
    /\ padic_a \in Operands
    /\ padic_b \in Operands
    /\ dw = DwStart(padic_a, padic_b)
    /\ rat_a = None /\ rat_b = None /\ pfr = None
    /\ padic = None /\ simp = None /\ resimp = None
    /\ rat_raw = None /\ rat_dws = None

NextComb == DwLoopStep \/ DwReturn \/ Simplify \/ FromPadic \/ Reduce

SpecComb == InitComb /\ [][NextComb]_vars

\* ------------------------------------------------------------------------
\* Properties
\* ------------------------------------------------------------------------
Returned == pc \in {"simplify", "to_rational", "reduce", "done", "raised"}

\* C1: round trip.  A rational with d > 0, converted by padic_from_rational,
\* simplified, converted back by rational_from_padic and reduced, is the
\* reduced input; no step of the round trip raises.
C1_RoundTrip ==
    /\ pc # "raised"
    /\ pc = "done" => rat_dws = simplify_rational(rat_a)

\* a reduced negative fraction with a factor p in its denominator went
\* round, through an expansion with a prefix and a period of several digits
C1_Witness ==
    /\ pc = "done"
    /\ rat_a = simplify_rational(rat_a)
    /\ rat_a.n < 0
    /\ padic.shr > 0
    /\ padic.rpt > 0
    /\ Period(simp) > 1

\* C2: simplify_padic preserves the denoted value.  Once simplify_padic has
\* run on the output of padic_digitwise_op on two converter outputs, its
\* result is a well-formed expansion that converts to the same reduced
\* rational as its argument.
C2_ValuePreserved ==
    simp # None =>
        /\ WellFormed(simp, p)
        /\ Value(simp, p) = Value(padic, p)

\* the first nonzero digit among seq[:shr], or their end, lies at or
\* before the repeat index
StripInPrefix(x) == TrailingZeroes(x.seq, x.shr) <= x.rpt

\* C3: idempotence.  simplify_padic applied to its own result returns that
\* result, digit for digit, with the same repeat index and shift.
C3_Idempotent == resimp # None => resimp = simp

\* the repeated digits of x, read cyclically, repeat with period q
TailPeriodic(x, q) ==
    \A j \in 0..(Period(x) - 1) :
        x.seq[x.rpt + j + 1] = x.seq[x.rpt + ((j + q) % Period(x)) + 1]

\* C6: minimality.  The result of simplify_padic on a well-formed expansion
\* is an expansion whose repeated part repeats with no period shorter than
\* its length.
C6_Minimal ==
    simp # None =>
        /\ WellFormed(simp, p)
        /\ \A q \in 1..(Period(simp) - 1) : ~TailPeriodic(simp, q)

\* C2, C3 and C6 on the inputs whose zero fractional digits end within the
\* non-repeated prefix
SimplifySoundInPrefix ==
    (simp # None /\ StripInPrefix(padic)) =>
        /\ WellFormed(simp, p)
        /\ Value(simp, p) = Value(padic, p)
        /\ \A q \in 1..(Period(simp) - 1) : ~TailPeriodic(simp, q)
        /\ resimp # None => resimp = simp

\* the bitwise exclusive or of two naturals
RECURSIVE Xor(_, _)
Xor(a, b) ==
    IF a = 0 /\ b = 0 THEN 0
    ELSE (((a % 2) + (b % 2)) % 2) + 2 * Xor(a \div 2, b \div 2)

\* how far the unrolled digits are compared: past the stored output, both
\* operands, the padding and a joint period
Horizon(A, B, out) ==
    2 * Len(out.seq) + Len(A.seq) + Len(B.seq) + Abs(A.shr - B.shr)
        + Period(A) * Period(B)

\* C4: combinator correctness.  The result of padic_digitwise_op is a
\* well-formed expansion with shift max(shr_a, shr_b) whose unrolled digit at
\* each position k is op of the operands' digits at the same place, 0 below
\* an operand's first stored digit; and for the converter's expansions of
\* non-negative integers a and b under the digit sum in base 2, the
\* simplified result converts back to a XOR b.
C4_Combinator ==
    /\ padic # None =>
        LET m == Max(padic_a.shr, padic_b.shr)
        IN  /\ WellFormed(padic, p)
            /\ padic.shr = m
            /\ \A k \in 0..Horizon(padic_a, padic_b, padic) :
                  DigitAt(padic, k) =
                      ApplyOp(op, p, DigitAt(padic_a, k - (m - padic_a.shr)),
                                     DigitAt(padic_b, k - (m - padic_b.shr)))
    /\ \A a, b \in 0..MaxInt :
          ( /\ op = "sum"
            /\ p = DefaultPrime
            /\ padic_a = IntegerExpansion[a]
            /\ padic_b = IntegerExpansion[b] )
          => /\ pc # "raised"
             /\ pc = "done" => rat_dws = [n |-> Xor(a, b), d |-> 1]

\* two operands with different shifts and periods 2 and 3 were summed
C4_Witness ==
    /\ pc = "done"
    /\ op = "sum"
    /\ padic_a.shr > padic_b.shr
    /\ padic_b.shr > 0
    /\ Period(padic_a) = 2
    /\ Period(padic_b) = 3
    /\ Period(padic) = 6

\* C5 as claimed: the loop of padic_digitwise_op appends at most
\* len(A) + len(B) + periodA * periodB digits.
C5_BoundAsClaimed ==
    dw # None =>
        Len(dw.seq) <= Len(padic_a.seq) + Len(padic_b.seq)
                         + Period(padic_a) * Period(padic_b)

\* C5 amended: the loop of padic_digitwise_op appends at most
\* |shr_a - shr_b| + len(A) + len(B) + periodA * periodB digits.
C5_BoundWithPadding ==
    dw # None =>
        Len(dw.seq) <= Abs(padic_a.shr - padic_b.shr)
                         + Len(padic_a.seq) + Len(padic_b.seq)
                         + Period(padic_a) * Period(padic_b)

\* the loop has returned after more rounds than the claimed bound
C5_Witness ==
    /\ Returned
    /\ dw # None
    /\ padic_a.shr # padic_b.shr
    /\ Len(padic.seq) > Len(padic_a.seq) + Len(padic_b.seq)
                          + Period(padic_a) * Period(padic_b)

\* C7 as claimed: rational_from_padic on an expansion with
\* rpt = len(seq) ends in an error and returns no pair.
C7_RejectsAsClaimed ==
    (rat_raw # None /\ simp.rpt = Len(simp.seq)) => IsError(rat_raw)

\* C7 amended: on an expansion with rpt = len(seq) rational_from_padic
\* returns the pair (0, 0) and raises nothing; the reduction of that pair
\* by simplify_rational raises ZeroDivisionError, so no reduced rational
\* results.
C7_ZeroPairThenRaise ==
    simp.rpt = Len(simp.seq) =>
        /\ rat_raw # None => rat_raw = [n |-> 0, d |-> 0]
        /\ rat_dws # None => rat_dws = Raise("ZeroDivisionError")
        /\ pc # "done"

\* an expansion of two digits, the first nonzero, with rpt = len(seq) was
\* converted and the reduction raised
C7_Witness ==
    /\ pc = "raised"
    /\ Len(simp.seq) = 2
    /\ simp.rpt = 2
    /\ simp.seq[1] # 0
    /\ rat_raw = [n |-> 0, d |-> 0]
    /\ rat_dws = Raise("ZeroDivisionError")

\* C8 as claimed: simplify_rational(n, 0) is an error for every n, and for
\* d # 0 the result has a positive denominator coprime to the numerator.
C8_ErrorAsClaimed ==
    rat_a # None =>
        IF argv.da = 0 THEN IsError(rat_a)
        ELSE /\ ~IsError(rat_a)
             /\ rat_a.d > 0
             /\ Gcd(rat_a.n, rat_a.d) = 1

Sign(x) == IF x < 0 THEN -1 ELSE IF x > 0 THEN 1 ELSE 0

\* what simplify_rational returns for the arguments nn, dd
NormalisedAs(nn, dd, r) ==
    IF dd = 0
    THEN IF nn = 0 THEN r = Raise("ZeroDivisionError")
         ELSE r = [n |-> Sign(nn), d |-> 0]
    ELSE /\ ~IsError(r)
         /\ r.d > 0
         /\ Gcd(r.n, r.d) = 1
         /\ r.n * Abs(dd) = Sign(dd) * nn * r.d

\* C8 amended: simplify_rational(n, 0) raises ZeroDivisionError only for
\* n = 0; for n # 0 it returns the pair (sign(n), 0), which main's
\* assertion that the denominator is positive rejects before any
\* conversion; for d # 0 the result is the same fraction with a positive
\* denominator coprime to the numerator.
C8_ZeroDenominator ==
    /\ rat_a # None => NormalisedAs(argv.na, argv.da, rat_a)
    /\ rat_b # None => NormalisedAs(argv.nb, argv.db, rat_b)
    /\ (padic_a # None \/ padic_b # None \/ pc = "main_237") =>
           (rat_a.d > 0 /\ rat_b.d > 0)

\* a nonzero numerator over 0 was normalised to (-1, 0) and the assertion
\* stopped the program
C8_Witness ==
    /\ pc = "assert_failed"
    /\ argv.na < -1
    /\ argv.da = 0
    /\ rat_a = [n |-> -1, d |-> 0]

\* the stripped numerator and denominator of the argument
Stripped == PfrStripAll(PfrStart(rat_a), p)

\* C9: termination of padic_from_rational.  In the loop the residual never
\* exceeds max(|n|, d) in absolute value (n the argument's numerator, d the
\* stripped denominator), and the function returns, with
\* 0 <= rpt < len(seq) and every digit in [0, p).
C9_Terminates ==
    /\ [](pc = "pfr_loop" => Abs(pfr.n) <= Max(Abs(rat_a.n), pfr.d))
    /\ <>(Returned /\ WellFormed(padic, p))

\* the loop ran at least four rounds and met a residual first recorded
\* after the first round
C9_Witness ==
    /\ Returned
    /\ Len(padic.seq) >= 4
    /\ padic.rpt >= 1
    /\ Cardinality(DOMAIN pfr.seen) = Len(padic.seq)

\* the value of the digits emitted so far: sum of seq[j] * q^j
RECURSIVE PartialValue(_, _)
PartialValue(s, q) ==
    IF s = <<>> THEN 0 ELSE s[1] + q * PartialValue(Tail(s), q)

\* C10: residual invariant.  At the top of every round of the loop, with k
\* digits emitted, n0 - (value of the digits) * d = residual * p^k, and the
\* residual less d times the next digit is divisible by p.
C10_Residual ==
    pc = "pfr_loop" =>
        /\ Stripped.n - PartialValue(pfr.seq, p) * pfr.d
              = pfr.n * Pow(p, Len(pfr.seq))
        /\ pfr.d = Stripped.d
        /\ (pfr.n - pfr.d * ((pfr.n * pfr.di) % p)) % p = 0

\* mid-loop in base 5, three digits emitted, a negative residual not yet
\* recorded, a stripped denominator that is not its own inverse
C10_Witness ==
    /\ pc = "pfr_loop"
    /\ p = 5
    /\ Len(pfr.seq) = 3
    /\ pfr.n < 0
    /\ pfr.n \notin DOMAIN pfr.seen
    /\ (pfr.d * pfr.d) % p # 1

====
